---------------------------- MODULE Spec2Model ----------------------------
(***************************************************************************)
(* Model of supabase/functions/search-citations/index.ts: the request      *)
(* handler (validation, optional query expansion, two-provider fan-out     *)
(* joined with Promise.allSettled, aggregation, deduplication, ranking,    *)
(* optional history insert, response) and its pure helpers.                *)
(*                                                                         *)
(* JavaScript strings that the code inspects (titles, abstracts, DOIs,     *)
(* queries) are sequences of one-character strings, so that toLowerCase,   *)
(* trim and includes are computed and not assumed.  An optional value      *)
(* (undefined / null) is the empty tuple <<>>, a present value v is <<v>>. *)
(***************************************************************************)
EXTENDS Integers, Sequences, FiniteSets, TLC

(***************************************************************************)
(* Bounds of the model.                                                    *)
(***************************************************************************)
\* longest list one provider returns in the handler specification
MaxItems == 2
\* longest input list of the deduplication specification
MaxLen == 3
\* longest input list of the ranking specification
MaxRank == 3

(***************************************************************************)
(* Strings.                                                                *)
(***************************************************************************)
UpperChars == <<"A","B","C","D","E","F","G","H","I","J","K","L","M",
                "N","O","P","Q","R","S","T","U","V","W","X","Y","Z">>
LowerChars == <<"a","b","c","d","e","f","g","h","i","j","k","l","m",
                "n","o","p","q","r","s","t","u","v","w","x","y","z">>

\* the characters String.prototype.trim and /\s+/ treat as white space
WhiteSpace == {" ", "\t", "\n"}

LowerChar(c) ==
  IF \E i \in 1..Len(UpperChars) : UpperChars[i] = c
    THEN LowerChars[CHOOSE i \in 1..Len(UpperChars) : UpperChars[i] = c]
    ELSE c

\* String.prototype.toLowerCase
ToLowerCase(s) == [i \in 1..Len(s) |-> LowerChar(s[i])]

\* trim left out: the string as it is
TrimNone(s) == s

\* String.prototype.trim: drops leading and trailing white space only
Trim(s) ==
  LET keep == {i \in 1..Len(s) : s[i] \notin WhiteSpace}
  IN  IF keep = {} THEN <<>>
      ELSE LET lo == CHOOSE i \in keep : \A j \in keep : i <= j
               hi == CHOOSE i \in keep : \A j \in keep : j <= i
           IN  SubSeq(s, lo, hi)

\* String.prototype.includes
Includes(s, t) ==
  \E i \in 0..(Len(s) - Len(t)) : SubSeq(s, i + 1, i + Len(t)) = t

(***************************************************************************)
(* String literals used by the code and by the bounded inputs.             *)
(***************************************************************************)
StrUntitled == <<"U","n","t","i","t","l","e","d">>
StrNoAbstract == <<"N","o"," ","a","b","s","t","r","a","c","t">>
StrDeepLearning == <<"D","e","e","p"," ","L","e","a","r","n","i","n","g">>
StrDeepSpaced == <<"d","e","e","p"," "," "," ","l","e","a","r","n","i","n","g"," ">>
StrDeepPadded == <<" ","D","E","E","P"," ","l","e","a","r","n","i","n","g","\t">>
StrFoo == <<"F","o","o">>
StrBar == <<"B","a","r">>
StrDoiX == <<"1","0",".","1","/","x">>
StrDoiY == <<"1","0",".","2","/","y">>
StrDoiXUpper == <<"1","0",".","1","/","X">>

(***************************************************************************)
(* deduplicateResults (index.ts 258-271).                                  *)
(***************************************************************************)
\* JavaScript truthiness of an optional string: present and non-empty
TruthyStr(o) == o # <<>> /\ o[1] # <<>>

\* the key taken from the title alone, the DOI ignored
DedupKeyTitleOnly(result) == Trim(ToLowerCase(result.title))

\* line 263: result.doi || result.title.toLowerCase().trim()
DedupKey(result) ==
  IF TruthyStr(result.doi) THEN result.doi[1]
  ELSE Trim(ToLowerCase(result.title))

\* the loop of lines 262-268 after the first k results
RECURSIVE DedupLoop(_, _)
DedupLoop(results, k) ==
  IF k = 0 THEN [seen |-> {}, unique |-> <<>>]
  ELSE LET prev == DedupLoop(results, k - 1)
           key == DedupKey(results[k])
       IN  IF key \notin prev.seen
             THEN [seen |-> prev.seen \cup {key},
                   unique |-> Append(prev.unique, results[k])]
             ELSE prev

deduplicateResults(results) == DedupLoop(results, Len(results)).unique

(***************************************************************************)
(* rankResults (index.ts 273-324).  A relevanceScore is an IEEE-754 double *)
(* and every += of lines 287-318 rounds to nearest, ties to even.  A       *)
(* double d is kept exactly as the pair [h, l] with d = (h * Limb + l) *   *)
(* 2^-54 and 0 <= l < Limb; every score of the model lies in the binades   *)
(* from 2^-2 to 2^5, whose units in the last place are whole multiples of  *)
(* 2^-54.                                                                  *)
(***************************************************************************)
Limb == 1073741824

\* the double of a small whole number of points, and of half a point
DInt(n) == [h |-> n * 16777216, l |-> 0]
DHalf == [h |-> 8388608, l |-> 0]

\* the unit in the last place, in units of 2^-54, of the binade that holds
\* h * Limb (53-bit significand)
Ulp(h) ==
  IF h >= 536870912 THEN 128
  ELSE IF h >= 268435456 THEN 64
  ELSE IF h >= 134217728 THEN 32
  ELSE IF h >= 67108864 THEN 16
  ELSE IF h >= 33554432 THEN 8
  ELSE IF h >= 16777216 THEN 4
  ELSE IF h >= 8388608 THEN 2
  ELSE 1

\* round the exact value h * Limb + l to the nearest double, ties to even
DRound(h, l) ==
  LET hn == h + (l \div Limb)
      ln == l % Limb
      u == Ulp(hn)
      r == ln % u
      down == ln - r
      up == IF 2 * r > u \/ (2 * r = u /\ (down \div u) % 2 = 1)
              THEN down + u ELSE down
  IN  IF up = Limb THEN [h |-> hn + 1, l |-> 0] ELSE [h |-> hn, l |-> up]

\* a + b of two doubles (the += of lines 308, 313 and 318)
DAdd(a, b) == DRound(a.h + b.h, a.l + b.l)

\* a <= b: the sign of b - a, which the comparator of line 323 returns, is
\* exact for doubles
DLeq(a, b) == a.h < b.h \/ (a.h = b.h /\ a.l <= b.l)

\* Math.log(citationCount + 1) * 0.5 (line 308) as the double V8 computes
\* (its Math.log is the fdlibm ieee754 log; the product with 0.5 is exact),
\* for the citation counts of the bounded inputs:
\* 0, 0.34657359027997264, 0.6931471805599453, 1.151292546497023,
\* 3.45437738965761
LogHalf(citationCount) ==
  CASE citationCount = 0 -> [h |-> 0, l |-> 0]
    [] citationCount = 1 -> [h |-> 5814539, l |-> 1056586223]
    [] citationCount = 3 -> [h |-> 11629079, l |-> 1039430622]
    [] citationCount = 9 -> [h |-> 19315483, l |-> 785732696]
    [] citationCount = 1000 -> [h |-> 57954835, l |-> 656917280]

\* String.prototype.split(/\s+/): the maximal runs without white space (the
\* empty strings split also yields at the ends are dropped by the length
\* filter of line 275 in any case)
RECURSIVE SplitRuns(_, _, _)
SplitRuns(s, i, cur) ==
  IF i > Len(s) THEN (IF cur = <<>> THEN <<>> ELSE <<cur>>)
  ELSE IF s[i] \in WhiteSpace
         THEN (IF cur = <<>> THEN <<>> ELSE <<cur>>) \o SplitRuns(s, i + 1, <<>>)
         ELSE SplitRuns(s, i + 1, Append(cur, s[i]))

\* line 275: queryLower.split(/\s+/).filter(term => term.length > 2)
QueryTerms(queryLower) ==
  SelectSeq(SplitRuns(queryLower, 1, <<>>), LAMBDA term : Len(term) > 2)

\* number of terms (with repetitions) that text includes
TermHits(terms, text) ==
  Cardinality({i \in 1..Len(terms) : Includes(text, terms[i])})

\* a title scored on its terms alone
TitleSignalsTermsOnly(queryLower, queryTerms, titleLower) ==
  3 * TermHits(queryTerms, titleLower)

\* lines 286-297: the points of the title, 10 for the whole query and 3 for
\* every term
TitleSignals(queryLower, queryTerms, titleLower) ==
    (IF Includes(titleLower, queryLower) THEN 10 ELSE 0)
  + 3 * TermHits(queryTerms, titleLower)

\* lines 299-305: the points of the abstract, 5 for the whole query and 1
\* for every term
AbstractSignals(queryLower, queryTerms, abstractLower) ==
    (IF Includes(abstractLower, queryLower) THEN 5 ELSE 0)
  + TermHits(queryTerms, abstractLower)

\* a recency window of six years
RecencySixYears(year, currentYear) ==
  IF year # <<>> /\ year[1] # 0 /\ currentYear - year[1] <= 6 THEN 3 ELSE 0

\* lines 311-314: 3 points for a truthy year within five years of the
\* wall-clock year
RecencyBonus(year, currentYear) ==
  IF year # <<>> /\ year[1] # 0 /\ currentYear - year[1] <= 5 THEN 3 ELSE 0

\* lines 279-319: the score of one result, summed in the order of the code;
\* the whole-number signals are exact, the later sums round.  currentYear is
\* the wall-clock year read at line 311.
Score(result, originalQuery, currentYear) ==
  LET queryLower == ToLowerCase(originalQuery)
      queryTerms == QueryTerms(queryLower)
      titleLower == ToLowerCase(result.title)
      abstractLower == ToLowerCase(result.abstract)
      matched == DInt(TitleSignals(queryLower, queryTerms, titleLower)
                      + AbstractSignals(queryLower, queryTerms, abstractLower))
      cited == DAdd(matched, LogHalf(result.citationCount))
      recency == RecencyBonus(result.year, currentYear)
      recent == IF recency = 0 THEN cited ELSE DAdd(cited, DInt(recency))
  IN  IF result.source = "Semantic Scholar" THEN DAdd(recent, DHalf) ELSE recent

\* line 321: { ...result, relevanceScore: score }
Scored(result, originalQuery, currentYear) ==
  [title |-> result.title, authors |-> result.authors, year |-> result.year,
   abstract |-> result.abstract, url |-> result.url, source |-> result.source,
   citationCount |-> result.citationCount, doi |-> result.doi,
   relevanceScore |-> Score(result, originalQuery, currentYear)]

\* an unstable sort: x goes ahead of the elements it ties with
InsertAheadOfTies(sorted, x) ==
  LET ahead == {i \in 1..Len(sorted) :
                  ~DLeq(sorted[i].relevanceScore, x.relevanceScore)}
      n == Cardinality(ahead)
  IN  SubSeq(sorted, 1, n) \o <<x>> \o SubSeq(sorted, n + 1, Len(sorted))

\* Array.prototype.sort with (a, b) => b.relevanceScore - a.relevanceScore
\* (line 323) is a stable sort: x goes behind every element it does not beat
InsertByScore(sorted, x) ==
  LET ahead == {i \in 1..Len(sorted) : DLeq(x.relevanceScore, sorted[i].relevanceScore)}
      n == Cardinality(ahead)
  IN  SubSeq(sorted, 1, n) \o <<x>> \o SubSeq(sorted, n + 1, Len(sorted))

RECURSIVE SortByScore(_, _)
SortByScore(scored, k) ==
  IF k = 0 THEN <<>>
  ELSE InsertByScore(SortByScore(scored, k - 1), scored[k])

rankResults(results, originalQuery, currentYear) ==
  SortByScore([i \in 1..Len(results) |->
                 Scored(results[i], originalQuery, currentYear)],
              Len(results))

(***************************************************************************)
(* Provider adapters (index.ts 176-256).  A transport outcome is what the  *)
(* provider and the network do to one fetch: its kind, and for a parsed    *)
(* payload that holds a list, the raw items.                               *)
(***************************************************************************)
StrUnknown == <<"U","n","k","n","o","w","n">>
StrS2Url == <<"s","2","/">>
StrDoiUrl == <<"d","o","i","/">>
StrAl == <<"A","l">>
StrBo == <<"B","o">>
StrU1 == <<"u","1">>
StrP2 == <<"p","2">>
StrP3 == <<"p","3">>
StrSurvey == <<"a"," ","d","e","e","p"," ","l","e","a","r","n","i","n","g"," ","s","u","r","v","e","y">>

\* fetch rejects; response.ok is false (and response.text() resolves or
\* rejects); response.json() rejects; the parsed payload is null; it has no
\* list; the list field is not an array; the array holds a null; the array
\* holds items (possibly none)
FailureKinds ==
  {"fetchThrows", "notOk", "notOkTextThrows", "jsonThrows", "jsonNull",
   "noList", "notArray", "nullItem"}
OutcomeKinds == FailureKinds \cup {"items"}

\* the kinds on which the body of the try block throws
ThrowingKinds ==
  {"fetchThrows", "notOkTextThrows", "jsonThrows", "jsonNull", "notArray",
   "nullItem"}

\* Array.prototype.join(", ")
RECURSIVE JoinNames(_, _)
JoinNames(names, k) ==
  IF k = 0 THEN <<>>
  ELSE IF k = 1 THEN names[1]
  ELSE JoinNames(names, k - 1) \o <<",", " ">> \o names[k]

\* x || dflt for an optional string x
OrStr(o, dflt) == IF TruthyStr(o) THEN o[1] ELSE dflt

\* x || 0 for an optional number
OrZero(o) == IF o # <<>> THEN o[1] ELSE 0

\* lines 201-210: one Semantic Scholar paper in the common shape
MapS2Paper(paper) ==
  [title |-> OrStr(paper.title, StrUntitled),
   authors |->
     (IF paper.authors # <<>>
           /\ JoinNames(paper.authors[1], Len(paper.authors[1])) # <<>>
        THEN JoinNames(paper.authors[1], Len(paper.authors[1]))
        ELSE StrUnknown),
   year |->
     (IF paper.year # <<>> /\ paper.year[1] # 0 THEN paper.year
      ELSE IF paper.publicationDate # <<>>
        THEN <<paper.publicationDate[1].year>>
        ELSE <<>>),
   abstract |-> OrStr(paper.abstract, StrNoAbstract),
   url |-> <<OrStr(paper.url, StrS2Url \o paper.paperId)>>,
   source |-> "Semantic Scholar",
   citationCount |-> OrZero(paper.citationCount),
   doi |-> (IF paper.externalIds # <<>> THEN paper.externalIds[1].DOI ELSE <<>>)]

\* `${a.given || ''} ${a.family || ''}`.trim() of line 244
CrAuthorName(a) == Trim(OrStr(a.given, <<>>) \o <<" ">> \o OrStr(a.family, <<>>))

\* lines 242-251: one CrossRef item in the common shape
MapCrItem(item) ==
  [title |->
     (IF item.title # <<>> /\ item.title[1] # <<>> /\ item.title[1][1] # <<>>
        THEN item.title[1][1] ELSE StrUntitled),
   authors |->
     (LET names == IF item.author = <<>> THEN <<>>
                   ELSE [i \in 1..Len(item.author[1]) |->
                           CrAuthorName(item.author[1][i])]
      IN  IF JoinNames(names, Len(names)) # <<>>
            THEN JoinNames(names, Len(names)) ELSE StrUnknown),
   year |-> (IF item.published # <<>> /\ item.published[1] # 0
               THEN item.published ELSE <<>>),
   abstract |-> OrStr(item.abstract, StrNoAbstract),
   url |-> (IF TruthyStr(item.URL) THEN item.URL
            ELSE IF TruthyStr(item.DOI) THEN <<StrDoiUrl \o item.DOI[1]>>
            ELSE <<>>),
   source |-> "CrossRef",
   citationCount |-> OrZero(item.referencedByCount),
   doi |-> item.DOI]

\* the raw papers Semantic Scholar answers with in the bounded model
S2Papers ==
  { [title |-> <<StrDeepLearning>>, authors |-> <<<<StrAl, StrBo>>>>,
     year |-> <<2024>>, publicationDate |-> <<>>, abstract |-> <<StrSurvey>>,
     url |-> <<StrU1>>, paperId |-> StrU1, citationCount |-> <<1000>>,
     externalIds |-> <<[DOI |-> <<StrDoiX>>]>>],
    [title |-> <<>>, authors |-> <<>>, year |-> <<>>,
     publicationDate |-> <<[year |-> 2019]>>, abstract |-> <<>>,
     url |-> <<>>, paperId |-> StrP2, citationCount |-> <<>>,
     externalIds |-> <<>>],
    [title |-> <<StrFoo>>, authors |-> <<<<>>>>, year |-> <<>>,
     publicationDate |-> <<>>, abstract |-> <<<<>>>>,
     url |-> <<>>, paperId |-> StrP3, citationCount |-> <<3>>,
     externalIds |-> <<[DOI |-> <<>>]>>] }

\* the raw items CrossRef answers with in the bounded model
CrItems ==
  { [title |-> <<<<StrBar>>>>, author |-> <<<<[given |-> <<StrAl>>, family |-> <<>>]>>>>,
     published |-> <<2021>>, abstract |-> <<>>, URL |-> <<>>,
     DOI |-> <<StrDoiX>>, referencedByCount |-> <<3>>],
    [title |-> <<<<StrDeepSpaced>>>>, author |-> <<>>,
     published |-> <<>>, abstract |-> <<StrSurvey>>, URL |-> <<StrU1>>,
     DOI |-> <<>>, referencedByCount |-> <<1>>],
    [title |-> <<<<>>>>, author |-> <<<<>>>>,
     published |-> <<>>, abstract |-> <<>>, URL |-> <<>>,
     DOI |-> <<<<>>>>, referencedByCount |-> <<>>] }

\* the lists of at most n elements of S
ListsUpTo(S, n) == UNION {[1..k -> S] : k \in 0..n}

\* limit=10 and rows=10 of lines 180 and 221: the most one provider returns
PageSize == 10
Digits == <<"0","1","2","3","4","5","6","7","8","9">>

\* a full page of Semantic Scholar: PageSize papers with titles "P0", "P1",
\* ..., every other one cited
S2FullPage ==
  [i \in 1..PageSize |->
     [title |-> <<<<"P", Digits[i]>>>>, authors |-> <<>>, year |-> <<>>,
      publicationDate |-> <<>>, abstract |-> <<>>, url |-> <<>>,
      paperId |-> <<"p", Digits[i]>>,
      citationCount |-> IF i % 2 = 0 THEN <<9>> ELSE <<>>,
      externalIds |-> <<>>]]

\* a full page of CrossRef: PageSize items, the first two with the titles
\* "p0" and "p1" and the others with titles "Q2", "Q3", ...
CrFullPage ==
  [i \in 1..PageSize |->
     [title |-> <<<<IF i <= 2 THEN <<"p", Digits[i]>> ELSE <<"Q", Digits[i]>>>>>>,
      author |-> <<>>, published |-> <<>>, abstract |-> <<>>, URL |-> <<>>,
      DOI |-> <<>>, referencedByCount |-> IF i % 3 = 0 THEN <<3>> ELSE <<>>]]

\* the lists of at most n elements of S without a repetition
DistinctListsUpTo(S, n) ==
  {list \in ListsUpTo(S, n) :
     \A i, j \in 1..Len(list) : list[i] = list[j] => i = j}

\* what one fetch of a provider that answers from Raw can come to: a
\* failure, a short list of different raw items, or the full page
Outcomes(Raw, page) ==
  [kind : FailureKinds, items : {<<>>}]
    \cup [kind : {"items"}, items : DistinctListsUpTo(Raw, MaxItems) \cup {page}]

\* a settled promise as Promise.allSettled reports it
Fulfilled(v) == [status |-> "fulfilled", value |-> v]
Rejected == [status |-> "rejected", value |-> <<>>]
Pending == [status |-> "pending", value |-> <<>>]

\* the try block of lines 177-210 or 218-251: it throws, or returns a list;
\* mapped is the list the map call of line 201 or 242 makes of the items
AdapterBody(outcome, mapped) ==
  IF outcome.kind \in ThrowingKinds THEN [threw |-> TRUE, value |-> <<>>]
  ELSE IF outcome.kind \in {"notOk", "noList"} \/ Len(outcome.items) = 0
    THEN [threw |-> FALSE, value |-> <<>>]
  ELSE [threw |-> FALSE, value |-> mapped]

\* the adapter without its catch: a throw rejects the promise
AdapterNoCatch(body) ==
  IF body.threw THEN Rejected ELSE Fulfilled(body.value)

\* the catch of lines 211-214 and 252-255 turns a throw into []
AdapterCatch(body) ==
  IF body.threw THEN Fulfilled(<<>>) ELSE Fulfilled(body.value)

searchSemanticScholar(outcome) ==
  AdapterCatch(AdapterBody(outcome,
    [i \in 1..Len(outcome.items) |-> MapS2Paper(outcome.items[i])]))

searchCrossRef(outcome) ==
  AdapterCatch(AdapterBody(outcome,
    [i \in 1..Len(outcome.items) |-> MapCrItem(outcome.items[i])]))

(***************************************************************************)
(* Request values.  The query field of the JSON body is absent, a string   *)
(* or a value of another type (a number); userId is absent or an opaque    *)
(* identifier.                                                             *)
(***************************************************************************)
StrQuery == <<"d","e","e","p"," ","l","e","a","r","n","i","n","g">>
StrExpandedRaw == <<" ","d","e","e","p"," ","n","e","t","s","\n">>

QAbsent == [kind |-> "absent", s |-> <<>>]
QStr(s) == [kind |-> "str", s |-> s]
QNum == [kind |-> "num", s |-> <<>>]

Queries == {QAbsent, QStr(<<>>), QStr(StrQuery), QNum}
UserIds == {<<>>, <<"user-1">>}
Methods == {"OPTIONS", "POST"}

\* the body req.json() yields: it rejects, it is the JSON value null, or it
\* is an object whose query and userId fields are read at line 19
Bodies ==
  [kind : {"unparsable", "null"}, query : {QAbsent}, userId : {<<>>}]
    \cup [kind : {"object"}, query : Queries, userId : UserIds]

\* a check for a missing query only: the empty string passes
FalsyAbsentOnly(q) == q.kind = "absent"

\* line 21: !query
Falsy(q) == q.kind = "absent" \/ (q.kind = "str" /\ q.s = <<>>)

(***************************************************************************)
(* expandQuery (index.ts 139-174).                                         *)
(***************************************************************************)
\* fetch rejects; response.ok is false (text() resolves or rejects); json()
\* rejects; the payload has no choices array; choices[0] or its content is
\* missing; the content is not a string; the content is a string
ExpandOutcomes ==
  [kind : {"fetchThrows", "notOk", "notOkTextThrows", "jsonThrows",
           "noChoices", "noContent", "badContent"}, content : {<<>>}]
    \cup [kind : {"content"}, content : {<<>>, <<" ", "\t">>, StrExpandedRaw}]

ExpandErrorKinds ==
  {"fetchThrows", "notOk", "notOkTextThrows", "jsonThrows", "noChoices",
   "badContent"}

\* the try block of lines 141-169
ExpandBody(query, outcome) ==
  IF outcome.kind \in {"fetchThrows", "notOkTextThrows", "jsonThrows",
                       "noChoices", "badContent"}
    THEN [threw |-> TRUE, value |-> query]
  ELSE IF outcome.kind \in {"notOk", "noContent"}
    THEN [threw |-> FALSE, value |-> query]
  ELSE IF Trim(outcome.content) # <<>>
    THEN [threw |-> FALSE, value |-> QStr(Trim(outcome.content))]
  ELSE [threw |-> FALSE, value |-> query]

\* with the catch of lines 170-173
expandQuery(query, outcome) ==
  LET body == ExpandBody(query, outcome)
  IN  IF body.threw THEN query ELSE body.value

\* how the expansion call ended: in an error (a throw inside expandQuery or
\* a non-success status), without usable content, or with an expanded query
ExpandClass(outcome) ==
  IF outcome.kind \in ExpandErrorKinds THEN "error"
  ELSE IF outcome.kind = "noContent" \/ Trim(outcome.content) = <<>>
    THEN "fallback"
  ELSE "expanded"

(***************************************************************************)
(* The request handler (index.ts 9-137).                                   *)
(***************************************************************************)
VARIABLES
  pc,             \* where the handler is: idle, expanding, searching, storing, done
  method,         \* req.method
  bodyKind,       \* what req.json() came to: none (not read), unparsable, null, object
  query,          \* line 19
  userId,         \* line 19
  expOutcome,     \* the expansion call: notCalled, noKey, pending, error,
                  \* fallback, expanded
  expandedQuery,  \* line 35
  semQuery,       \* the argument searchSemanticScholar was called with, if it was
  crQuery,        \* the argument searchCrossRef was called with, if it was
  semOutcome,     \* the transport outcome kind of the Semantic Scholar fetch
  crOutcome,      \* the transport outcome kind of the CrossRef fetch
  semSettled,     \* semanticResults of line 50
  crSettled,      \* crossrefResults of line 50
  firstSettled,   \* which adapter call settled first
  allResults,     \* line 56
  uniqueResults,  \* line 86
  rankedResults,  \* line 89
  clockYear,      \* the year read at line 311 (0 while rankResults has not run)
  histStatus,     \* the history step: notReached, noUser, noCreds, clientThrew,
                  \* pending, stored, storeError, rejected
  history,        \* the rows of the search_history table
  response,       \* the Response the handler returned, if it has
  dIn,            \* deduplication specification: the input list
  dOut,           \* deduplication specification: the output list
  dDone,          \* deduplication specification: deduplicateResults has run
  rIn,            \* ranking specification: the list handed to rankResults
  rQuery,         \* ranking specification: the originalQuery handed to it
  rPhase,         \* ranking specification: how many times rankResults has run
  rYear1,         \* ranking specification: the wall-clock year of the first run
  rOut1,          \* ranking specification: what the first run returned
  rYear2,         \* ranking specification: the wall-clock year of the second run
  rOut2           \* ranking specification: what the second run returned

hvars == <<pc, method, bodyKind, clockYear, query, userId, expOutcome, expandedQuery, semQuery,
           crQuery, semOutcome, crOutcome, semSettled, crSettled, firstSettled,
           allResults, uniqueResults, rankedResults, histStatus, history,
           response>>
dvars == <<dIn, dOut, dDone>>
rvars == <<rIn, rQuery, rPhase, rYear1, rOut1, rYear2, rOut2>>
vars == <<hvars, dvars, rvars>>

\* results.slice(0, 10) of lines 103 and 116
TopCount == 10
\* the wall-clock year new Date().getFullYear() yields at line 311
ClockYears == {2026}

StatusOk == 200
StatusBadRequest == 400
StatusNotFound == 404
StatusError == 500

NoResponse ==
  [status |-> 0, error |-> "", details |-> "", query |-> QAbsent,
   expandedQuery |-> QAbsent, results |-> <<>>, totalFound |-> 0]

\* lines 12-15
PreflightResponse == [NoResponse EXCEPT !.status = StatusOk]
\* lines 22-28
BadRequestResponse ==
  [NoResponse EXCEPT !.status = StatusBadRequest, !.error = "Query is required"]
\* lines 72-82
NotFoundResponse(q, eq) ==
  [NoResponse EXCEPT !.status = StatusNotFound,
                     !.error = "No results found. Please try a different search term.",
                     !.query = q, !.expandedQuery = eq]
\* one text for every failure
ErrorResponseGeneric(message) ==
  [NoResponse EXCEPT !.status = StatusError, !.error = "Unknown error occurred",
                     !.details = "Please check the server logs for more information"]

\* lines 126-135: error is the message of the Error caught (every value the
\* handler can throw is an Error), details is a fixed text
ErrorResponse(message) ==
  [NoResponse EXCEPT !.status = StatusError, !.error = message,
                     !.details = "Please check the server logs for more information"]
\* no truncation
SliceAll(list) == list

\* Array.prototype.slice(0, TopCount)
Slice(list) ==
  SubSeq(list, 1, IF Len(list) < TopCount THEN Len(list) ELSE TopCount)
\* lines 112-123
SuccessResponse(q, eq, ranked) ==
  [NoResponse EXCEPT !.status = StatusOk, !.query = q, !.expandedQuery = eq,
                     !.results = Slice(ranked), !.totalFound = Len(ranked)]

\* a row with the whole ranked list
HistoryRowUntruncated(uid, q, eq, ranked) ==
  [user_id |-> uid, query |-> q, expanded_query |-> eq, results |-> ranked]

\* lines 99-104: the row handed to insert
HistoryRow(uid, q, eq, ranked) ==
  [user_id |-> uid, query |-> q, expanded_query |-> eq, results |-> Slice(ranked)]

\* a race: the handler resumes when the first call has settled
AnySettled(a, b) ==
  a.status \in {"fulfilled", "rejected"} \/ b.status \in {"fulfilled", "rejected"}

\* Promise.allSettled of line 50 resumes the handler when no call is pending
AllSettled(a, b) == a.status # "pending" /\ b.status # "pending"

\* an aggregate that needs both providers to have answered with records
AggregateBoth(sem, cr) ==
  IF sem.status = "fulfilled" /\ sem.value # <<>>
       /\ cr.status = "fulfilled" /\ cr.value # <<>>
    THEN sem.value \o cr.value
    ELSE <<>>

\* CrossRef's records ahead of Semantic Scholar's
AggregateCrossRefFirst(sem, cr) ==
  (IF cr.status = "fulfilled" THEN cr.value ELSE <<>>)
    \o (IF sem.status = "fulfilled" THEN sem.value ELSE <<>>)

\* lines 56-68: the aggregate collection
Aggregate(sem, cr) ==
  (IF sem.status = "fulfilled" THEN sem.value ELSE <<>>)
    \o (IF cr.status = "fulfilled" THEN cr.value ELSE <<>>)

\* the no-results check left out
NoResultsNever(all) == Len(all) < 0

\* line 71
NoResults(all) == Len(all) = 0

\* ranking on the expanded text
RankArgumentExpanded(q, eq) == eq.s

\* line 89: rankResults(uniqueResults, query), the query of line 19
RankArgument(q, eq) == q.s

\* line 274: originalQuery.toLowerCase() throws unless the query is a string
RankThrows(q) == q.kind # "str"

\* the insert started and not awaited
InsertDetached == FALSE

\* line 99: the handler awaits the insert before it builds the response
InsertIsAwaited == TRUE

\* the insert without its catch: a rejection reaches the outer catch
AfterInsertUncaught(outcome, success) ==
  IF outcome = "rejected" THEN ErrorResponse("insert failed") ELSE success

\* lines 106-109: a rejected insert is caught and logged, and the handler
\* goes on to the success response of line 112
AfterInsert(outcome, success) == success

Idle == [status |-> "idle", value |-> <<>>]

HandlerInit ==
  /\ pc = "idle"
  /\ method = ""
  /\ bodyKind = "none"
  /\ clockYear = 0
  /\ query = QAbsent
  /\ userId = <<>>
  /\ expOutcome = "notCalled"
  /\ expandedQuery = QAbsent
  /\ semQuery = <<>>
  /\ crQuery = <<>>
  /\ semOutcome = "none"
  /\ crOutcome = "none"
  /\ semSettled = Idle
  /\ crSettled = Idle
  /\ firstSettled = "none"
  /\ allResults = <<>>
  /\ uniqueResults = <<>>
  /\ rankedResults = <<>>
  /\ histStatus = "notReached"
  /\ history = <<>>
  /\ response = NoResponse

\* rankResults on its own has not been asked for
RankIdle ==
  /\ rIn = <<>>
  /\ rQuery = <<>>
  /\ rPhase = 0
  /\ rYear1 = 0
  /\ rOut1 = <<>>
  /\ rYear2 = 0
  /\ rOut2 = <<>>

Init ==
  /\ HandlerInit
  /\ dIn = <<>>
  /\ dOut = <<>>
  /\ dDone = FALSE
  /\ RankIdle

\* lines 50-53: both adapters are called with expandedQuery, then the handler
\* suspends on Promise.allSettled
InvokeAdapters(eq) ==
  /\ semQuery' = <<eq>>
  /\ crQuery' = <<eq>>
  /\ semSettled' = Pending
  /\ crSettled' = Pending
  /\ pc' = "searching"

Respond(r) ==
  /\ response' = r
  /\ pc' = "done"

\* lines 9-47: the handler from its entry to its first suspension on a
\* collaborator (req.json() is folded into the step)
Receive ==
  /\ pc = "idle"
  /\ \E m \in Methods, body \in Bodies, hasApiKey \in BOOLEAN :
       /\ method' = m
       /\ bodyKind' = IF m = "OPTIONS" THEN "none" ELSE body.kind
       /\ IF m = "OPTIONS"
            THEN /\ Respond(PreflightResponse)
                 /\ UNCHANGED <<query, userId, expOutcome, expandedQuery,
                                semQuery, crQuery, semSettled, crSettled>>
          ELSE IF body.kind = "unparsable"
            THEN /\ Respond(ErrorResponse("Unexpected end of JSON input"))
                 /\ UNCHANGED <<query, userId, expOutcome, expandedQuery,
                                semQuery, crQuery, semSettled, crSettled>>
          ELSE IF body.kind = "null"
            THEN /\ Respond(ErrorResponse("Cannot destructure property 'query' of null"))
                 /\ UNCHANGED <<query, userId, expOutcome, expandedQuery,
                                semQuery, crQuery, semSettled, crSettled>>
          ELSE /\ query' = body.query
               /\ userId' = body.userId
               /\ IF Falsy(body.query)
                    THEN /\ Respond(BadRequestResponse)
                         /\ UNCHANGED <<expOutcome, expandedQuery, semQuery,
                                        crQuery, semSettled, crSettled>>
                  ELSE IF hasApiKey
                    THEN /\ pc' = "expanding"
                         /\ expOutcome' = "pending"
                         /\ expandedQuery' = body.query
                         /\ UNCHANGED <<semQuery, crQuery, semSettled,
                                        crSettled, response>>
                  ELSE /\ expOutcome' = "noKey"
                       /\ expandedQuery' = body.query
                       /\ InvokeAdapters(body.query)
                       /\ UNCHANGED response
  /\ UNCHANGED <<semOutcome, crOutcome, firstSettled, allResults,
                 uniqueResults, rankedResults, clockYear, histStatus, history>>
  /\ UNCHANGED <<dvars, rvars>>

\* lines 39-53: the expansion call settles, the handler resumes, takes its
\* result and calls both adapters
ExpandSettles ==
  /\ pc = "expanding"
  /\ \E outcome \in ExpandOutcomes :
       /\ expOutcome' = ExpandClass(outcome)
       /\ expandedQuery' = expandQuery(query, outcome)
       /\ InvokeAdapters(expandQuery(query, outcome))
  /\ UNCHANGED <<method, bodyKind, query, userId, semOutcome, crOutcome,
                 firstSettled, allResults, uniqueResults, rankedResults,
                 clockYear, histStatus, history, response>>
  /\ UNCHANGED <<dvars, rvars>>

\* lines 176-215: the Semantic Scholar call settles
SemanticSettles ==
  /\ pc = "searching"
  /\ semSettled.status = "pending"
  /\ \E outcome \in Outcomes(S2Papers, S2FullPage) :
       /\ semOutcome' = outcome.kind
       /\ semSettled' = searchSemanticScholar(outcome)
  /\ firstSettled' = IF firstSettled = "none" THEN "sem" ELSE firstSettled
  /\ UNCHANGED <<pc, method, bodyKind, query, userId, expOutcome,
                 expandedQuery, semQuery, crQuery, crOutcome, crSettled,
                 allResults, uniqueResults, rankedResults, clockYear,
                 histStatus, history, response>>
  /\ UNCHANGED <<dvars, rvars>>

\* lines 217-256: the CrossRef call settles
CrossRefSettles ==
  /\ pc = "searching"
  /\ crSettled.status = "pending"
  /\ \E outcome \in Outcomes(CrItems, CrFullPage) :
       /\ crOutcome' = outcome.kind
       /\ crSettled' = searchCrossRef(outcome)
  /\ firstSettled' = IF firstSettled = "none" THEN "cr" ELSE firstSettled
  /\ UNCHANGED <<pc, method, bodyKind, query, userId, expOutcome,
                 expandedQuery, semQuery, crQuery, semOutcome, semSettled,
                 allResults, uniqueResults, rankedResults, clockYear,
                 histStatus, history, response>>
  /\ UNCHANGED <<dvars, rvars>>

\* lines 50-123: Promise.allSettled resolves and the handler runs on to the
\* 404, to the 500 of the outer catch, to the success response, or to its
\* suspension on the history insert
Join ==
  /\ pc = "searching"
  /\ AllSettled(semSettled, crSettled)
  /\ LET all == Aggregate(semSettled, crSettled)
         unique == deduplicateResults(all)
     IN  /\ allResults' = all
         /\ IF NoResults(all)
              THEN /\ Respond(NotFoundResponse(query, expandedQuery))
                   /\ UNCHANGED <<uniqueResults, rankedResults, clockYear,
                                  histStatus>>
            ELSE IF RankThrows(query)
              THEN /\ uniqueResults' = unique
                   /\ Respond(ErrorResponse("originalQuery.toLowerCase is not a function"))
                   /\ UNCHANGED <<rankedResults, clockYear, histStatus>>
            ELSE \E currentYear \in ClockYears :
                   LET ranked == rankResults(unique, RankArgument(query, expandedQuery),
                                             currentYear)
                       success == SuccessResponse(query, expandedQuery, ranked)
                   IN  /\ uniqueResults' = unique
                       /\ rankedResults' = ranked
                       /\ clockYear' = currentYear
                       /\ IF userId = <<>>
                            THEN /\ histStatus' = "noUser"
                                 /\ Respond(success)
                          ELSE \E h \in {"noCreds", "clientThrew", "pending"} :
                                 /\ histStatus' = h
                                 /\ IF h = "pending"
                                      THEN /\ pc' = "storing"
                                           /\ response' = IF InsertIsAwaited
                                                            THEN response
                                                            ELSE success
                                    ELSE Respond(success)
  /\ UNCHANGED <<method, bodyKind, query, userId, expOutcome, expandedQuery,
                 semQuery, crQuery, semOutcome, crOutcome, semSettled,
                 crSettled, firstSettled, history>>
  /\ UNCHANGED <<dvars, rvars>>

\* lines 99-123: the insert settles (the row is stored, the store answers
\* with an error object, or the call rejects) and the handler responds
HistorySettles ==
  /\ pc = "storing"
  /\ histStatus = "pending"
  /\ \E outcome \in {"stored", "storeError", "rejected"} :
       /\ histStatus' = outcome
       /\ history' = IF outcome = "stored"
                       THEN Append(history,
                              HistoryRow(userId[1], query, expandedQuery, rankedResults))
                       ELSE history
       /\ response' = IF response.status = 0
                        THEN AfterInsert(outcome,
                               SuccessResponse(query, expandedQuery, rankedResults))
                        ELSE response
  /\ pc' = "done"
  /\ UNCHANGED <<method, bodyKind, query, userId, expOutcome, expandedQuery,
                 semQuery, crQuery, semOutcome, crOutcome, semSettled,
                 crSettled, firstSettled, allResults, uniqueResults,
                 rankedResults, clockYear>>
  /\ UNCHANGED <<dvars, rvars>>

Next ==
  \/ Receive
  \/ ExpandSettles
  \/ SemanticSettles
  \/ CrossRefSettles
  \/ Join
  \/ HistorySettles

Spec == Init /\ [][Next]_vars

(***************************************************************************)
(* deduplicateResults on its own: any list of at most MaxLen of the        *)
(* records below is handed to it once.                                     *)
(***************************************************************************)
DedupTitles ==
  {StrDeepLearning, StrDeepSpaced, StrDeepPadded, StrFoo, StrBar, StrDoiXUpper}

\* a record of the common shape with the given title and DOI
DedupRecord(title, doi) ==
  [title |-> title, authors |-> StrUnknown, year |-> <<>>,
   abstract |-> StrNoAbstract, url |-> <<>>, source |-> "CrossRef",
   citationCount |-> 0, doi |-> doi]

\* every title without DOI; some titles with the empty DOI, with the DOI
\* "10.1/x" and with the DOI "10.2/y"
DedupRecords ==
  {DedupRecord(t, <<>>) : t \in DedupTitles}
    \cup {DedupRecord(t, <<<<>>>>) : t \in {StrDeepLearning, StrDeepPadded, StrFoo}}
    \cup {DedupRecord(t, <<StrDoiX>>) : t \in {StrFoo, StrBar, StrDeepLearning}}
    \cup {DedupRecord(t, <<StrDoiY>>) : t \in {StrFoo, StrDeepLearning}}

InitDedupe ==
  /\ HandlerInit
  /\ dIn \in ListsUpTo(DedupRecords, MaxLen)
  /\ dOut = <<>>
  /\ dDone = FALSE
  /\ RankIdle

RunDedupe ==
  /\ ~dDone
  /\ dOut' = deduplicateResults(dIn)
  /\ dDone' = TRUE
  /\ UNCHANGED dIn
  /\ UNCHANGED <<hvars, rvars>>

NextDedupe == RunDedupe

SpecDedupe == InitDedupe /\ [][NextDedupe]_vars

(***************************************************************************)
(* rankResults on its own: any list of at most MaxRank of the records      *)
(* below is handed to it with one of two queries, and handed to it again   *)
(* later, when the wall clock may have moved on.  The year is read once a  *)
(* record at line 311; a run is taken to fall within one calendar year.    *)
(***************************************************************************)
StrAi == <<"a","i">>
StrDeepUpper == <<"D","E","E","P">>
StrRain == <<"R","a","i","n">>
StrAiDeep == <<"A","I"," ","d","e","e","p">>

\* "deep learning" has two terms longer than two characters, "ai" has none
RankQueries == {StrQuery, StrAi}

\* titles that hold the whole of "deep learning", one of its terms, nothing
\* of either query, the whole of "ai"
RankTitles == {StrDeepLearning, StrDeepUpper, StrFoo, StrRain}

RankRecord(title, abstract, citationCount, year, source) ==
  [title |-> title, authors |-> StrUnknown, year |-> year,
   abstract |-> abstract, url |-> <<>>, source |-> source,
   citationCount |-> citationCount, doi |-> <<>>]

\* every title on a cited record whose abstract holds the query "ai" and one
\* term of "deep learning", and on a Semantic Scholar record of 2021
RankRecords ==
  {RankRecord(t, StrAiDeep, 9, <<>>, "CrossRef") : t \in RankTitles}
    \cup {RankRecord(t, StrNoAbstract, 0, <<2021>>, "Semantic Scholar") :
            t \in RankTitles}

\* the wall-clock years of the two runs
RankYears == {2026, 2027, 2028}

InitRank ==
  /\ HandlerInit
  /\ dIn = <<>>
  /\ dOut = <<>>
  /\ dDone = FALSE
  /\ rIn \in ListsUpTo(RankRecords, MaxRank)
  /\ rQuery \in RankQueries
  /\ rPhase = 0
  /\ rYear1 = 0
  /\ rOut1 = <<>>
  /\ rYear2 = 0
  /\ rOut2 = <<>>

RunRank ==
  /\ rPhase = 0
  /\ \E currentYear \in RankYears :
       /\ rYear1' = currentYear
       /\ rOut1' = rankResults(rIn, rQuery, currentYear)
  /\ rPhase' = 1
  /\ UNCHANGED <<rIn, rQuery, rYear2, rOut2>>
  /\ UNCHANGED <<hvars, dvars>>

RerunRank ==
  /\ rPhase = 1
  /\ \E currentYear \in {y \in RankYears : y >= rYear1} :
       /\ rYear2' = currentYear
       /\ rOut2' = rankResults(rIn, rQuery, currentYear)
  /\ rPhase' = 2
  /\ UNCHANGED <<rIn, rQuery, rYear1, rOut1>>
  /\ UNCHANGED <<hvars, dvars>>

NextRank == RunRank \/ RerunRank

SpecRank == InitRank /\ [][NextRank]_vars

(***************************************************************************)
(* Properties of the handler, checked under Spec.                          *)
(***************************************************************************)
\* the request carried a query that passes line 21
HasQuery == bodyKind = "object" /\ (query.kind = "num" \/ (query.kind = "str" /\ query.s # <<>>))

\* the handler is past the join of line 50
Joined == HasQuery /\ pc \in {"storing", "done"}

\* an adapter call that failed or came back with nothing
CameBackEmpty(kind, settled) ==
  \/ kind \in FailureKinds
  \/ settled.status = "rejected"
  \/ (settled.status = "fulfilled" /\ settled.value = <<>>)

\* C1: for a request with a non-empty query, when both adapters fail or
\* return an empty list the response is the 404 that carries the original
\* and the expanded query, and no 200 search response carries an empty
\* result list or totalFound = 0.
C1_TotalFailureIs404 ==
  /\ (Joined /\ CameBackEmpty(semOutcome, semSettled)
             /\ CameBackEmpty(crOutcome, crSettled))
       => /\ pc = "done"
          /\ response.status = StatusNotFound
          /\ response.query = query
          /\ response.expandedQuery = expandedQuery
          /\ response.results = <<>>
  /\ (response.status = StatusOk /\ method = "POST")
       => /\ response.results # <<>>
          /\ response.totalFound > 0

C1_Witness ==
  /\ response.status = StatusNotFound
  /\ semOutcome = "fetchThrows"
  /\ crOutcome = "items"
  /\ expOutcome = "expanded"
  /\ response.expandedQuery # response.query

\* C2: for a request whose query is a non-empty string, whichever adapter
\* settles first, when one adapter fails or returns nothing and the other
\* returns a non-empty list L, the aggregate collection is exactly L in its
\* order and the response is the 200.
C2_PartialFailureTolerated ==
  (Joined /\ query.kind = "str")
    => /\ (CameBackEmpty(semOutcome, semSettled) /\ crSettled.value # <<>>)
            => /\ allResults = crSettled.value
               /\ (pc = "done" => response.status = StatusOk)
               /\ (pc = "storing" => histStatus = "pending")
       /\ (CameBackEmpty(crOutcome, crSettled) /\ semSettled.value # <<>>)
            => /\ allResults = semSettled.value
               /\ (pc = "done" => response.status = StatusOk)
               /\ (pc = "storing" => histStatus = "pending")

C2_Witness ==
  /\ pc = "done"
  /\ response.status = StatusOk
  /\ semOutcome = "jsonThrows"
  /\ firstSettled = "cr"
  /\ Len(crSettled.value) = 2
  /\ allResults = crSettled.value
  /\ crSettled.value[1] # crSettled.value[2]

\* C3: both adapters are called with one and the same query string, the
\* expanded query; the 200/404 response, the aggregate, the deduplicated and
\* the ranked list exist only once both calls have settled, and while one
\* call is pending the call that settled first has produced no response and
\* has not touched the other.
C3_AllSettledJoin ==
  /\ (semQuery # <<>> \/ crQuery # <<>>)
       => /\ semQuery = crQuery
          /\ semQuery = <<expandedQuery>>
          /\ semSettled.status # "idle"
          /\ crSettled.status # "idle"
  /\ (\/ (response.status \in {StatusOk, StatusNotFound} /\ method = "POST")
      \/ allResults # <<>>
      \/ uniqueResults # <<>>
      \/ rankedResults # <<>>
      \/ histStatus # "notReached")
       => /\ semSettled.status \in {"fulfilled", "rejected"}
          /\ crSettled.status \in {"fulfilled", "rejected"}
  /\ (semSettled.status = "pending" \/ crSettled.status = "pending")
       => /\ pc = "searching"
          /\ response = NoResponse
          /\ semSettled.status \in {"pending", "fulfilled"}
          /\ crSettled.status \in {"pending", "fulfilled"}

C3_Witness ==
  /\ pc = "searching"
  /\ semOutcome = "notOk"
  /\ semSettled.status = "fulfilled"
  /\ crSettled.status = "pending"
  /\ response = NoResponse
  /\ semQuery = crQuery
  /\ expOutcome = "expanded"

\* the response of the run in which expansion and history are disabled (no
\* API key, no userId), for the same query, adapter results and clock
DisabledRun(q, sem, cr, year) ==
  LET all == Aggregate(sem, cr)
  IN  IF Len(all) = 0 THEN NotFoundResponse(q, q)
      ELSE IF q.kind # "str"
        THEN ErrorResponse("originalQuery.toLowerCase is not a function")
      ELSE SuccessResponse(q, q, rankResults(deduplicateResults(all), q.s, year))

\* C4: for a request with a non-empty query, when the expansion call or the
\* history call ends in an error, the status and the result list of the
\* response are those of the run with both collaborators disabled on the
\* same adapter results; after a failed expansion the query searched is the
\* original one.
C4_CollaboratorFailureInvisible ==
  /\ (HasQuery /\ expOutcome = "error") => expandedQuery = query
  /\ (HasQuery /\ pc = "done"
        /\ (expOutcome = "error"
              \/ histStatus \in {"clientThrew", "storeError", "rejected"}))
       => LET off == DisabledRun(query, semSettled, crSettled, clockYear)
          IN  /\ response.status = off.status
              /\ response.results = off.results
              /\ response.totalFound = off.totalFound

C4_Witness ==
  /\ pc = "done"
  /\ expOutcome = "error"
  /\ histStatus = "rejected"
  /\ response.status = StatusOk
  /\ Len(response.results) >= 2

\* C5: a request whose body has no query, or an empty one, is answered with
\* 400 in the step that reads it, and neither the expansion service, nor an
\* adapter, nor the history store is called for it.
C5_EmptyQueryRejected ==
  (bodyKind = "object"
     /\ (query.kind = "absent" \/ (query.kind = "str" /\ query.s = <<>>)))
    => /\ pc = "done"
       /\ response.status = StatusBadRequest
       /\ expOutcome = "notCalled"
       /\ semQuery = <<>>
       /\ crQuery = <<>>
       /\ semSettled = Idle
       /\ crSettled = Idle
       /\ histStatus = "notReached"
       /\ history = <<>>

C5_Witness ==
  /\ bodyKind = "object"
  /\ query = QStr(<<>>)
  /\ userId # <<>>
  /\ response.status = StatusBadRequest

\* C6 as stated: the success response does not wait for the history call,
\* so whenever an insert is in flight the 200 has already been produced.
C6_FireAndForget ==
  histStatus = "pending" => response.status = StatusOk

\* C6 as amended: the insert is awaited.  While it is in flight the handler
\* has produced no response; the 200 comes once the call has settled, and it
\* comes whether the call stored the row, answered with an error or
\* rejected.
C6_InsertAwaited ==
  /\ histStatus = "pending" => (pc = "storing" /\ response = NoResponse)
  /\ (response.status = StatusOk /\ userId # <<>>)
       => histStatus \in {"noCreds", "clientThrew", "stored", "storeError", "rejected"}
  /\ histStatus \in {"stored", "storeError", "rejected"}
       => (pc = "done" /\ response.status = StatusOk)

C6_Witness ==
  /\ pc = "done"
  /\ userId # <<>>
  /\ histStatus = "rejected"
  /\ response.status = StatusOk
  /\ history = <<>>

\* C7: an adapter promise is never rejected, and on a transport error, a
\* non-success status or a payload that cannot be read the adapter resolves
\* to the empty list.
C7_AdapterNeverRejects ==
  /\ semSettled.status # "rejected"
  /\ crSettled.status # "rejected"
  /\ semOutcome \in FailureKinds => semSettled = Fulfilled(<<>>)
  /\ crOutcome \in FailureKinds => crSettled = Fulfilled(<<>>)

C7_Witness ==
  /\ semOutcome = "jsonNull"
  /\ crOutcome = "nullItem"
  /\ semSettled = Fulfilled(<<>>)
  /\ crSettled = Fulfilled(<<>>)
  /\ response.status = StatusNotFound

(***************************************************************************)
(* Properties of deduplicateResults, checked under SpecDedupe.             *)
(***************************************************************************)
\* the identity key as the design states it: the DOI if present and
\* non-empty, else the title lower-cased and trimmed
IdentityKey(r) ==
  IF r.doi # <<>> /\ r.doi[1] # <<>> THEN r.doi[1]
  ELSE Trim(ToLowerCase(r.title))

\* the positions of list whose identity key occurs at no earlier position
FirstOccurrences(list) ==
  {i \in 1..Len(list) :
     \A j \in 1..(i - 1) : IdentityKey(list[j]) # IdentityKey(list[i])}

\* the k-th smallest element of a set of positions
KthOf(positions, k) ==
  CHOOSE i \in positions : Cardinality({j \in positions : j <= i}) = k

\* C8: the output of dedupe is the input restricted, in order, to the first
\* occurrence of every identity key: it is never longer than the input,
\* every identity key of the input occurs in it exactly once, and a record
\* whose identity key is unique in the input is in it.
C8_DedupeFirstOccurrences ==
  dDone =>
    LET firsts == FirstOccurrences(dIn)
    IN  /\ Len(dOut) = Cardinality(firsts)
        /\ Len(dOut) <= Len(dIn)
        /\ \A k \in 1..Len(dOut) : dOut[k] = dIn[KthOf(firsts, k)]
        /\ \A i \in 1..Len(dIn) :
             Cardinality({k \in 1..Len(dOut) :
                            IdentityKey(dOut[k]) = IdentityKey(dIn[i])}) = 1
        /\ \A i \in 1..Len(dIn) :
             (\A j \in 1..Len(dIn) :
                j # i => IdentityKey(dIn[j]) # IdentityKey(dIn[i]))
               => \E k \in 1..Len(dOut) : dOut[k] = dIn[i]

C8_Witness ==
  /\ dDone
  /\ Len(dIn) = 3
  /\ Len(dOut) = 2
  /\ dOut = <<dIn[1], dIn[3]>>
  /\ dIn[1].doi = <<StrDoiX>>
  /\ dIn[2].doi = <<StrDoiX>>
  /\ dIn[3].doi = <<<<>>>>
  /\ dIn[1].title # dIn[2].title

\* C9 as stated: when two or more records of the input share a non-empty
\* DOI, the output holds the first of them and no other record with that
\* DOI, whatever their titles.
C9_SharedDoiKeepsFirst ==
  dDone =>
    \A i \in 1..Len(dIn) :
      LET sharing == {j \in 1..Len(dIn) :
                        dIn[j].doi # <<>> /\ dIn[j].doi[1] # <<>>
                          /\ dIn[j].doi = dIn[i].doi}
      IN  (i \in sharing /\ Cardinality(sharing) >= 2
             /\ \A j \in sharing : i <= j)
            => /\ \E k \in 1..Len(dOut) : dOut[k] = dIn[i]
               /\ Cardinality({k \in 1..Len(dOut) : dOut[k].doi = dIn[i].doi}) = 1

\* the input on which the code departs from C9: a record without DOI whose
\* title is "10.1/X", then two records with the DOI "10.1/x"
C9_FailingInput ==
  <<DedupRecord(StrDoiXUpper, <<>>), DedupRecord(StrFoo, <<StrDoiX>>),
    DedupRecord(StrBar, <<StrDoiX>>)>>

\* C10 as stated: of two records without DOI whose titles are
\* "Deep Learning" and "deep   learning ", dedupe keeps only the first.
C10_InteriorSpacesCollapse ==
  (dDone /\ Len(dIn) = 2
     /\ dIn[1].doi = <<>> /\ dIn[2].doi = <<>>
     /\ {dIn[1].title, dIn[2].title} = {StrDeepLearning, StrDeepSpaced})
    => dOut = <<dIn[1]>>

\* C10 as amended: of two records without DOI whose titles differ only in
\* case and in leading or trailing white space ("Deep Learning" and
\* " DEEP learning<tab>"), dedupe keeps only the first; the titles
\* "Deep Learning" and "deep   learning " differ in their interior white
\* space, are different keys, and both records are kept.
C10_TrimAndCaseOnly ==
  (dDone /\ Len(dIn) = 2
     /\ ~TruthyStr(dIn[1].doi) /\ ~TruthyStr(dIn[2].doi))
    => /\ {dIn[1].title, dIn[2].title} = {StrDeepLearning, StrDeepPadded}
            => dOut = <<dIn[1]>>
       /\ {dIn[1].title, dIn[2].title} = {StrDeepLearning, StrDeepSpaced}
            => dOut = dIn

C10_Witness ==
  /\ dDone
  /\ dIn = <<DedupRecord(StrDeepLearning, <<>>), DedupRecord(StrDeepPadded, <<>>)>>
  /\ dOut = <<DedupRecord(StrDeepLearning, <<>>)>>

\* C11: two records of the input with different non-empty DOIs never stand
\* for one another, even with equal titles: a list of just the two comes
\* back unchanged, and in a longer list both are in the output unless a
\* third record carries the identity key of one of them.
C11_DifferentDoisBothKept ==
  dDone =>
    \A i \in 1..Len(dIn) : \A j \in (i + 1)..Len(dIn) :
      (/\ dIn[i].doi # <<>> /\ dIn[i].doi[1] # <<>>
       /\ dIn[j].doi # <<>> /\ dIn[j].doi[1] # <<>>
       /\ dIn[i].doi # dIn[j].doi
       /\ \A k \in 1..Len(dIn) \ {i, j} :
            IdentityKey(dIn[k]) \notin {dIn[i].doi[1], dIn[j].doi[1]})
        => /\ \E m \in 1..Len(dOut) : \E n \in (m + 1)..Len(dOut) :
                dOut[m] = dIn[i] /\ dOut[n] = dIn[j]
           /\ Len(dIn) = 2 => dOut = dIn

C11_Witness ==
  /\ dDone
  /\ dIn = <<DedupRecord(StrFoo, <<StrDoiX>>), DedupRecord(StrFoo, <<StrDoiY>>)>>
  /\ dOut = dIn


(***************************************************************************)
(* Properties of rankResults, checked under SpecRank.                      *)
(***************************************************************************)
\* a ranked record without its relevanceScore
Unscored(scored) ==
  [title |-> scored.title, authors |-> scored.authors, year |-> scored.year,
   abstract |-> scored.abstract, url |-> scored.url, source |-> scored.source,
   citationCount |-> scored.citationCount, doi |-> scored.doi]

\* the positions of the input in the order of the output: out[k] is the
\* record in[f[k]] with a relevanceScore added
Rearranges(f, in, out) ==
  /\ \A k, m \in 1..Len(in) : f[k] = f[m] => k = m
  /\ \A k \in 1..Len(out) : Unscored(out[k]) = in[f[k]]

\* a is strictly below b
ScoreBelow(a, b) == a.h < b.h \/ (a.h = b.h /\ a.l < b.l)

\* C12: rankResults returns the records of its input, every one once and
\* extended with a relevanceScore, in non-increasing order of that score,
\* and records of equal score in the order they had in the input (looked at
\* when the first run has returned).
C12_RankIsStablePermutation ==
  rPhase = 1 =>
    /\ Len(rOut1) = Len(rIn)
    /\ \A k \in 1..Len(rOut1) : "relevanceScore" \in DOMAIN rOut1[k]
    /\ \A k \in 1..(Len(rOut1) - 1) :
         ~ScoreBelow(rOut1[k].relevanceScore, rOut1[k + 1].relevanceScore)
    /\ \E f \in [1..Len(rIn) -> 1..Len(rIn)] :
         /\ Rearranges(f, rIn, rOut1)
         /\ \A k \in 1..(Len(rOut1) - 1) :
              rOut1[k].relevanceScore = rOut1[k + 1].relevanceScore
                => f[k] < f[k + 1]

\* three different records, the first and the last of equal score and the
\* middle one above both: the middle one moves to the front and the other
\* two keep their order
C12_Witness ==
  /\ rPhase >= 1
  /\ Len(rIn) = 3
  /\ rIn[1] # rIn[3]
  /\ Unscored(rOut1[1]) = rIn[2]
  /\ Unscored(rOut1[2]) = rIn[1]
  /\ Unscored(rOut1[3]) = rIn[3]
  /\ rOut1[2].relevanceScore = rOut1[3].relevanceScore
  /\ ScoreBelow(rOut1[2].relevanceScore, rOut1[1].relevanceScore)

\* the relevanceScore the first run gave to a record of the input
ScoreOf(record) ==
  rOut1[CHOOSE k \in 1..Len(rOut1) : Unscored(rOut1[k]) = record].relevanceScore

\* a + b of two doubles without rounding
ExactSum(a, b) ==
  [h |-> a.h + b.h + ((a.l + b.l) \div Limb), l |-> (a.l + b.l) % Limb]

\* records i and j of the input differ, and in the title alone
SameButTitle(i, j) ==
  /\ rIn[i].title # rIn[j].title
  /\ rIn[i] = [rIn[j] EXCEPT !.title = rIn[i].title]

\* the lower-cased title of record i holds the whole lower-cased query
TitleHoldsQuery(i) ==
  Includes(ToLowerCase(rIn[i].title), ToLowerCase(rQuery))

\* the lower-cased title of record j holds none of the query terms
TitleHoldsNoTerm(j) ==
  LET terms == QueryTerms(ToLowerCase(rQuery))
      titleLower == ToLowerCase(rIn[j].title)
  IN  \A t \in 1..Len(terms) : ~Includes(titleLower, terms[t])

\* C15 as stated: of two records that differ in the title alone, the one
\* whose title holds the whole query scores at least 10 above the one whose
\* title holds none of the query terms, for any query.
C15_TitleMatchTenHigher ==
  rPhase = 1 =>
    \A i, j \in 1..Len(rIn) :
      (SameButTitle(i, j) /\ TitleHoldsQuery(i) /\ TitleHoldsNoTerm(j))
        => DLeq(ExactSum(ScoreOf(rIn[j]), DInt(10)), ScoreOf(rIn[i]))

\* what double rounding can take from a difference of scores: 2^-46
RoundingSlack == [h |-> 0, l |-> 256]

\* C15: of two records that differ in the title alone, the one whose title
\* holds the whole query scores at least 10 above the one whose title holds
\* none of the query terms, provided the query has a term longer than two
\* characters; for a query without such a term the difference is 10 to
\* within double rounding when the second title does not hold the whole
\* query.
C15_TitleMatchTenHigherWithTerms ==
  rPhase = 1 =>
    \A i, j \in 1..Len(rIn) :
      (SameButTitle(i, j) /\ TitleHoldsQuery(i) /\ TitleHoldsNoTerm(j))
        => /\ QueryTerms(ToLowerCase(rQuery)) # <<>>
                => DLeq(ExactSum(ScoreOf(rIn[j]), DInt(10)), ScoreOf(rIn[i]))
           /\ (QueryTerms(ToLowerCase(rQuery)) = <<>> /\ ~TitleHoldsQuery(j))
                => DLeq(ExactSum(ScoreOf(rIn[j]), DInt(10)),
                        ExactSum(ScoreOf(rIn[i]), RoundingSlack))

\* "Foo" and "Deep Learning" on the same cited record, ranked for the query
\* "deep learning": the second comes out first
C15_Witness ==
  /\ rPhase >= 1
  /\ rQuery = StrQuery
  /\ rIn = <<RankRecord(StrFoo, StrAiDeep, 9, <<>>, "CrossRef"),
             RankRecord(StrDeepLearning, StrAiDeep, 9, <<>>, "CrossRef")>>
  /\ SameButTitle(2, 1) /\ TitleHoldsQuery(2) /\ TitleHoldsNoTerm(1)
  /\ Unscored(rOut1[1]) = rIn[2]

\* the query "ai", the titles "Rain" and "Foo" on the cited record whose
\* abstract holds the query: 16.15129254649702 against 6.151292546497023
C15_RoundedBelowTen ==
  /\ rPhase >= 1
  /\ rQuery = StrAi
  /\ rIn = <<RankRecord(StrRain, StrAiDeep, 9, <<>>, "CrossRef"),
             RankRecord(StrFoo, StrAiDeep, 9, <<>>, "CrossRef")>>
  /\ SameButTitle(1, 2) /\ TitleHoldsQuery(1) /\ TitleHoldsNoTerm(2)
  /\ ~DLeq(ExactSum(ScoreOf(rIn[2]), DInt(10)), ScoreOf(rIn[1]))

\* the records of a ranked list, in its order
OrderOf(ranked) == [k \in 1..Len(ranked) |-> Unscored(ranked[k])]

\* C16 as stated: rankResults run again on the same list and the same query
\* returns the records in the same order.
C16_RerunSameOrder ==
  rPhase = 2 => OrderOf(rOut2) = OrderOf(rOut1)

\* no record of the input is within five years of the one wall-clock year
\* and not of the other
SameRecency(year1, year2) ==
  \A i \in 1..Len(rIn) :
    rIn[i].year = <<>>
      \/ (year1 - rIn[i].year[1] <= 5 <=> year2 - rIn[i].year[1] <= 5)

\* C16: rankResults run again on the same list and the same query returns
\* the same ranked list, scores and order, provided the wall-clock year of
\* the second run puts no record on the other side of the five-year recency
\* window (so always within one calendar year).
C16_RerunSameWhileRecencyHolds ==
  (rPhase = 2 /\ SameRecency(rYear1, rYear2)) => rOut2 = rOut1

\* a cited record ahead of a record of 2021, ranked in 2027 and again in
\* 2028
C16_Witness ==
  /\ rPhase = 2
  /\ rYear1 = 2027 /\ rYear2 = 2028
  /\ rQuery = StrQuery
  /\ rIn = <<RankRecord(StrFoo, StrNoAbstract, 0, <<2021>>, "Semantic Scholar"),
             RankRecord(StrFoo, StrAiDeep, 9, <<>>, "CrossRef")>>
  /\ OrderOf(rOut1) = <<rIn[2], rIn[1]>>
  /\ rOut2 = rOut1

\* a record of 2021 is ahead of a cited record in 2026 (3.5 against
\* 2.151292546497023) and behind it in 2027 (0.5)
C16_OrderChangesWithYear ==
  /\ rPhase = 2
  /\ rYear1 = 2026 /\ rYear2 = 2027
  /\ rQuery = StrQuery
  /\ rIn = <<RankRecord(StrFoo, StrAiDeep, 9, <<>>, "CrossRef"),
             RankRecord(StrFoo, StrNoAbstract, 0, <<2021>>, "Semantic Scholar")>>
  /\ OrderOf(rOut1) = <<rIn[2], rIn[1]>>
  /\ OrderOf(rOut2) = <<rIn[1], rIn[2]>>

(***************************************************************************)
(* Further properties of the handler, checked under Spec.                  *)
(***************************************************************************)
\* the handler answered the search with the success response of line 112
Succeeded == pc = "done" /\ method = "POST" /\ response.status = StatusOk

\* C13: the success response carries the query of the request, the query
\* both adapters were called with, the first min(10, n) records of the
\* ranked list in its order, and totalFound = n, where n is the number of
\* records deduplication left.
C13_SuccessResponseShape ==
  Succeeded =>
    /\ response.query = query
    /\ semQuery = <<response.expandedQuery>>
    /\ crQuery = <<response.expandedQuery>>
    /\ Len(rankedResults) = Len(uniqueResults)
    /\ response.totalFound = Len(uniqueResults)
    /\ Len(response.results)
         = (IF Len(rankedResults) < 10 THEN Len(rankedResults) ELSE 10)
    /\ \A k \in 1..Len(response.results) : response.results[k] = rankedResults[k]

\* both providers answer with a full page, two titles of which coincide:
\* eighteen unique records, ten of them in the response, after an expansion
\* that changed the query
C13_Witness ==
  /\ Succeeded
  /\ response.totalFound = 18
  /\ Len(response.results) = 10
  /\ response.results[10] = rankedResults[10]
  /\ response.expandedQuery # response.query

\* C14: when the expansion gave a different string, both adapters were
\* called with the expanded string and the ranked list is the one that
\* scoring the unique records against the query of the request gives: it
\* holds the scores of the original query whatever the expanded text is.
C14_ScoredOnOriginalQuery ==
  (Joined /\ query.kind = "str" /\ rankedResults # <<>>)
    => /\ semQuery = <<expandedQuery>>
       /\ crQuery = <<expandedQuery>>
       /\ Len(rankedResults) = Len(uniqueResults)
       /\ \A k \in 1..Len(rankedResults) :
            rankedResults[k].relevanceScore
              = Score(Unscored(rankedResults[k]), query.s, clockYear)

\* the expansion turned "deep learning" into "deep nets"; a record titled
\* "Deep Learning" is in the response with a score that the expanded query
\* would not have given it
C14_Witness ==
  /\ Succeeded
  /\ expOutcome = "expanded"
  /\ expandedQuery.s # query.s
  /\ semQuery = <<expandedQuery>>
  /\ \E k \in 1..Len(response.results) :
       /\ response.results[k].title = StrDeepLearning
       /\ response.results[k].relevanceScore
            # Score(Unscored(response.results[k]), expandedQuery.s, clockYear)

\* the handler ran into the outer catch of line 124: req.json() rejected,
\* the body was null, or rankResults threw on a query that is no string
InternalFailure ==
  /\ pc = "done"
  /\ method = "POST"
  /\ \/ bodyKind \in {"unparsable", "null"}
     \/ (Joined /\ query.kind = "num" /\ allResults # <<>>)

SemanticThenCrossRef ==
  (IF semSettled.status = "fulfilled" THEN semSettled.value ELSE <<>>)
    \o (IF crSettled.status = "fulfilled" THEN crSettled.value ELSE <<>>)

\* the response to a request with a query as a function of what the adapters
\* returned
ResponseFor(q, eq, all, year) ==
  IF all = <<>> THEN NotFoundResponse(q, eq)
  ELSE IF q.kind # "str"
    THEN ErrorResponse("originalQuery.toLowerCase is not a function")
  ELSE SuccessResponse(q, eq, rankResults(deduplicateResults(all), q.s, year))

\* C18: whichever adapter settles first, the aggregate collection is
\* Semantic Scholar's records followed by CrossRef's; the response is a
\* function of the two adapter results (and the queries and the clock), not
\* of the order of completion; and of a Semantic Scholar record and a
\* CrossRef record with one identity key, the records kept under that key
\* are Semantic Scholar's.
C18_CompletionOrderInvisible ==
  /\ Joined => allResults = SemanticThenCrossRef
  /\ (Joined /\ pc = "done")
       => response = ResponseFor(query, expandedQuery, SemanticThenCrossRef,
                                 clockYear)
  /\ (Joined /\ allResults # <<>>)
       => \A i \in 1..Len(semSettled.value) : \A j \in 1..Len(crSettled.value) :
            IdentityKey(semSettled.value[i]) = IdentityKey(crSettled.value[j])
              => /\ \E u \in 1..Len(uniqueResults) :
                      IdentityKey(uniqueResults[u]) = IdentityKey(semSettled.value[i])
                 /\ \A u \in 1..Len(uniqueResults) :
                      IdentityKey(uniqueResults[u]) = IdentityKey(semSettled.value[i])
                        => uniqueResults[u].source = "Semantic Scholar"

\* CrossRef settled first, both providers returned a record with the DOI
\* "10.1/x", and the response holds Semantic Scholar's
C18_Witness ==
  /\ Succeeded
  /\ firstSettled = "cr"
  /\ \E i \in 1..Len(semSettled.value) : \E j \in 1..Len(crSettled.value) :
       /\ semSettled.value[i].doi = <<StrDoiX>>
       /\ crSettled.value[j].doi = <<StrDoiX>>
  /\ allResults[1].source = "Semantic Scholar"
  /\ allResults[Len(allResults)].source = "CrossRef"
  /\ \E k \in 1..Len(response.results) :
       /\ response.results[k].doi = <<StrDoiX>>
       /\ response.results[k].source = "Semantic Scholar"

\* C19: the search_history table gets at most one row per request, and only
\* when the request had a userId, the ranking was done, the store client
\* could be made and the insert stored the row; a request answered with 400,
\* 404 or 500 leaves it empty; the row holds the user, the two queries and
\* the first ten ranked records, the very list the 200 response returns.
C19_HistoryWrittenOnceOnSuccess ==
  /\ Len(history) <= 1
  /\ response.status \in {StatusBadRequest, StatusNotFound, StatusError}
       => history = <<>>
  /\ histStatus \in {"notReached", "noUser", "noCreds", "clientThrew",
                     "pending", "storeError", "rejected"}
       => history = <<>>
  /\ history # <<>>
       => /\ histStatus = "stored"
          /\ userId # <<>>
          /\ rankedResults # <<>>
          /\ pc = "done"
          /\ response.status = StatusOk
          /\ history[1].user_id = userId[1]
          /\ history[1].query = query
          /\ history[1].expanded_query = expandedQuery
          /\ history[1].results = response.results
          /\ Len(history[1].results) <= 10

\* eighteen unique records for a request with a userId: the row and the
\* response hold the same ten
C19_Witness ==
  /\ Succeeded
  /\ userId = <<"user-1">>
  /\ Len(history) = 1
  /\ Len(rankedResults) = 18
  /\ Len(history[1].results) = 10
  /\ history[1].results = response.results

====
